---- MODULE Spec2Model ----
(***************************************************************************)
(* Worker pools of the thread_runner crate.                                *)
(*                                                                         *)
(* FixedThreadPool (src/execs.rs) and ExecuterService                      *)
(* (src/exec_service.rs) are the same program: an mpsc channel whose       *)
(* Receiver sits in Arc<parking_lot::Mutex<..>>, `size` worker threads     *)
(* looping on `receiver.lock().recv().unwrap()`, and a caller that calls   *)
(* new, execute, join (or drops the pool).  Specification Spec models      *)
(* them.  ThreadPool (src/execs/executor.rs) shares the Receiver through   *)
(* Redex, an Arc declared Sync by `unsafe impl`, with no lock around       *)
(* recv(); specification SpecRedex models it.                              *)
(***************************************************************************)
EXTENDS Naturals, Sequences, FiniteSets

\* Largest pool size passed to new().
MaxSize == 2
\* Largest number of execute() calls made on one pool.
MaxTasks == 3

\* State of the parking_lot::Mutex when no worker holds its guard.
Unlocked == 0

VARIABLES
    cpc,        \* position of the caller thread
    size,       \* workers.len(): number of Worker handles owned by the pool
    sender,     \* TRUE while the pool's Sender end is alive
    queue,      \* messages buffered in the channel, oldest first
    sent,       \* every message ever appended, in append order (id = index)
    lock,       \* Unlocked, or the worker holding the receiver's MutexGuard
    pc,         \* position of each worker thread in its loop
    msg,        \* the message bound to `msg` in each worker (NoMsg if none)
    joinIdx,    \* loop index inside join(): sends done, then handles joined
    handLog,    \* ids of messages returned by recv(), in order
    startLog,   \* ids of tasks whose body was invoked, in order
    doneLog,    \* ids of tasks whose body returned normally, in order
    unparked    \* workers whose thread has an unconsumed unpark() token

vars == <<cpc, size, sender, queue, sent, lock, pc, msg, joinIdx,
          handLog, startLog, doneLog, unparked>>

callerVars == <<cpc, size, sender, joinIdx>>
histVars == <<handLog, startLog, doneLog>>

----------------------------------------------------------------------------
\* enum Msg { Terminate, Task(Job) }; `id` is the position in append order,
\* `panics` tells whether the job's body unwinds instead of returning.
Terminate(id) == [kind |-> "Terminate", id |-> id, panics |-> FALSE]
Task(id, p) == [kind |-> "Task", id |-> id, panics |-> p]
NoMsg == [kind |-> "None", id |-> 0, panics |-> FALSE]

Workers == 1..size

\* A worker thread has ended: its closure returned (break) or unwound (panic).
Ended(w) == pc[w] \in {"exited", "panicked"}

\* The Receiver lives in an Arc cloned into every worker closure: it is
\* dropped, and send() starts failing, once every closure has ended.
ReceiverAlive == \E w \in Workers : ~Ended(w)

\* Number of occurrences of x in sequence s.
Count(s, x) == Cardinality({i \in 1..Len(s) : s[i] = x})

TaskIds == {i \in 1..Len(sent) : sent[i].kind = "Task"}
TerminateIds == {i \in 1..Len(sent) : sent[i].kind = "Terminate"}

----------------------------------------------------------------------------
Init ==
    /\ cpc = "new"
    /\ size = 0
    /\ sender = FALSE
    /\ queue = <<>>
    /\ sent = <<>>
    /\ lock = Unlocked
    /\ pc = <<>>
    /\ msg = <<>>
    /\ joinIdx = 0
    /\ handLog = <<>>
    /\ startLog = <<>>
    /\ doneLog = <<>>
    /\ unparked = {}

\* New without the assert_ne!: new(0) returns a pool that has no worker.
NewNoAssert(n) ==
    /\ cpc = "new"
    /\ cpc' = "running"
    /\ size' = n
    /\ sender' = TRUE
    /\ pc' = [w \in 1..n |-> "idle"]
    /\ msg' = [w \in 1..n |-> NoMsg]
    /\ UNCHANGED <<queue, sent, lock, joinIdx, histVars, unparked>>

\* FixedThreadPool::new(n): assert_ne!(size, 0), then channel(), then one
\* Worker (one spawned thread) per index, all sharing the one receiver.
New(n) ==
    /\ cpc = "new"
    /\ IF n = 0
         THEN /\ cpc' = "new_panicked"
              /\ UNCHANGED <<size, sender, pc, msg>>
         ELSE /\ cpc' = "running"
              /\ size' = n
              /\ sender' = TRUE
              /\ pc' = [w \in 1..n |-> "idle"]
              /\ msg' = [w \in 1..n |-> NoMsg]
    /\ UNCHANGED <<queue, sent, lock, joinIdx, histVars, unparked>>

\* Send on a channel that delivers the newest message first.
SendFront(m) ==
    /\ queue' = <<m>> \o queue
    /\ sent' = Append(sent, m)

\* sender.send(m): appends unless the Receiver has been dropped.
Send(m) ==
    /\ queue' = Append(queue, m)
    /\ sent' = Append(sent, m)

\* FixedThreadPool::execute(f): self.sender.send(Msg::Task(Box::new(f))).unwrap()
Execute(p) ==
    /\ cpc = "running"
    /\ Cardinality(TaskIds) < MaxTasks
    /\ IF ReceiverAlive
         THEN /\ Send(Task(Len(sent) + 1, p))
              /\ UNCHANGED <<cpc, sender>>
         ELSE /\ cpc' = "execute_panicked"
              /\ sender' = FALSE
              /\ UNCHANGED <<queue, sent>>
    /\ UNCHANGED <<size, lock, pc, msg, joinIdx, histVars, unparked>>

\* Dropping the pool without join (as the doc example of new() does): the
\* Sender is dropped, the worker handles are dropped and the threads detach.
DropPool ==
    /\ cpc = "running"
    /\ cpc' = "dropped"
    /\ sender' = FALSE
    /\ UNCHANGED <<size, queue, sent, lock, pc, msg, joinIdx, histVars, unparked>>

\* FixedThreadPool::join(self) is entered: the pool is moved into the call.
Join ==
    /\ cpc = "running"
    /\ cpc' = "join_send"
    /\ joinIdx' = 0
    /\ UNCHANGED <<size, sender, queue, sent, lock, pc, msg, histVars, unparked>>

\* JoinSend with the loop bound off by one: one Terminate too few is sent.
JoinSendOneShort ==
    /\ cpc = "join_send"
    /\ IF joinIdx + 1 >= size
         THEN /\ cpc' = "join_wait"
              /\ joinIdx' = 0
              /\ UNCHANGED <<sender, queue, sent>>
         ELSE IF ReceiverAlive
                THEN /\ Send(Terminate(Len(sent) + 1))
                     /\ joinIdx' = joinIdx + 1
                     /\ UNCHANGED <<cpc, sender>>
                ELSE /\ cpc' = "join_panicked"
                     /\ sender' = FALSE
                     /\ UNCHANGED <<queue, sent, joinIdx>>
    /\ UNCHANGED <<size, lock, pc, msg, histVars, unparked>>

\* join, first loop: for _ in 0..self.workers.len()
\*                       { self.sender.send(Msg::Terminate).unwrap(); }
JoinSend ==
    /\ cpc = "join_send"
    /\ IF ReceiverAlive
         THEN /\ Send(Terminate(Len(sent) + 1))
              /\ IF joinIdx + 1 = size
                   THEN cpc' = "join_wait" /\ joinIdx' = 0
                   ELSE cpc' = "join_send" /\ joinIdx' = joinIdx + 1
              /\ UNCHANGED sender
         ELSE /\ cpc' = "join_panicked"
              /\ sender' = FALSE
              /\ UNCHANGED <<queue, sent, joinIdx>>
    /\ UNCHANGED <<size, lock, pc, msg, histVars, unparked>>

\* JoinWait that does not block: a handle whose thread still runs is passed
\* over as if it had been joined.
JoinWaitNoBlock ==
    /\ cpc = "join_wait"
    /\ IF pc[joinIdx + 1] = "panicked"
         THEN /\ cpc' = "join_panicked"
              /\ sender' = FALSE
              /\ UNCHANGED joinIdx
         ELSE IF joinIdx + 1 = size
                THEN cpc' = "joined" /\ sender' = FALSE /\ UNCHANGED joinIdx
                ELSE joinIdx' = joinIdx + 1 /\ UNCHANGED <<cpc, sender>>
    /\ UNCHANGED <<size, queue, sent, lock, pc, msg, histVars, unparked>>

\* JoinWait that joins the first handle only and then returns.
JoinWaitFirstOnly ==
    /\ cpc = "join_wait"
    /\ Ended(joinIdx + 1)
    /\ IF pc[joinIdx + 1] = "panicked"
         THEN cpc' = "join_panicked"
         ELSE cpc' = "joined"
    /\ sender' = FALSE
    /\ UNCHANGED <<size, queue, sent, lock, pc, msg, joinIdx, histVars, unparked>>

\* join, second loop: for Worker { thread } in self.workers
\*                        { thread.join().unwrap(); }
\* thread.join() blocks until the thread has ended and is Err if it panicked.
JoinWait ==
    /\ cpc = "join_wait"
    /\ Ended(joinIdx + 1)
    /\ IF pc[joinIdx + 1] = "panicked"
         THEN /\ cpc' = "join_panicked"
              /\ sender' = FALSE
              /\ UNCHANGED joinIdx
         ELSE IF joinIdx + 1 = size
                THEN cpc' = "joined" /\ sender' = FALSE /\ UNCHANGED joinIdx
                ELSE joinIdx' = joinIdx + 1 /\ UNCHANGED <<cpc, sender>>
    /\ UNCHANGED <<size, queue, sent, lock, pc, msg, histVars, unparked>>

----------------------------------------------------------------------------
\* Worker loop of FixedThreadPool / ExecuterService:
\*     loop { let msg = receiver.lock().recv().unwrap();
\*            match msg { Msg::Terminate => break, Msg::Task(job) => job() } }

\* receiver.lock(): blocks until the mutex is free, then holds the guard.
Lock(w) ==
    /\ pc[w] = "idle"
    /\ lock = Unlocked
    /\ lock' = w
    /\ pc' = [pc EXCEPT ![w] = "recv"]
    /\ UNCHANGED <<callerVars, queue, sent, msg, histVars, unparked>>

\* Recv that pops the newest message instead of the oldest.
RecvLast(w) ==
    /\ pc[w] = "recv"
    /\ queue # <<>>
    /\ msg' = [msg EXCEPT ![w] = queue[Len(queue)]]
    /\ queue' = SubSeq(queue, 1, Len(queue) - 1)
    /\ handLog' = Append(handLog, queue[Len(queue)].id)
    /\ pc' = [pc EXCEPT ![w] = "unlock"]
    /\ UNCHANGED <<callerVars, sent, lock, startLog, doneLog, unparked>>

\* .recv() returns Ok(m): blocks while the channel is empty and a Sender
\* is alive; buffered messages are returned oldest first.
Recv(w) ==
    /\ pc[w] = "recv"
    /\ queue # <<>>
    /\ msg' = [msg EXCEPT ![w] = Head(queue)]
    /\ queue' = Tail(queue)
    /\ handLog' = Append(handLog, Head(queue).id)
    /\ pc' = [pc EXCEPT ![w] = "unlock"]
    /\ UNCHANGED <<callerVars, sent, lock, startLog, doneLog, unparked>>

\* .recv() returns Err(RecvError): the channel is empty and every Sender is
\* gone; .unwrap() panics and the unwinding thread drops the guard.
RecvErr(w) ==
    /\ pc[w] = "recv"
    /\ queue = <<>>
    /\ ~sender
    /\ pc' = [pc EXCEPT ![w] = "panicked"]
    /\ lock' = IF lock = w THEN Unlocked ELSE lock
    /\ UNCHANGED <<callerVars, queue, sent, msg, histVars, unparked>>

\* Unlock where the guard is bound to a variable instead of being a
\* temporary: it outlives the statement and the lock stays held.
UnlockKeepsGuard(w) ==
    /\ pc[w] = "unlock"
    /\ pc' = [pc EXCEPT ![w] = "match"]
    /\ UNCHANGED <<callerVars, queue, sent, lock, msg, histVars, unparked>>

\* End of the `let` statement: the temporary MutexGuard is dropped.
Unlock(w) ==
    /\ pc[w] = "unlock"
    /\ lock' = Unlocked
    /\ pc' = [pc EXCEPT ![w] = "match"]
    /\ UNCHANGED <<callerVars, queue, sent, msg, histVars, unparked>>

\* Match that starts the job without waiting for it: the loop goes round
\* while the body is still running.
MatchDetached(w) ==
    /\ pc[w] = "match"
    /\ IF msg[w].kind = "Terminate"
         THEN /\ pc' = [pc EXCEPT ![w] = "exited"]
              /\ UNCHANGED startLog
         ELSE /\ pc' = [pc EXCEPT ![w] = "idle"]
              /\ startLog' = Append(startLog, msg[w].id)
    /\ msg' = [msg EXCEPT ![w] = NoMsg]
    /\ UNCHANGED <<callerVars, queue, sent, lock, handLog, doneLog, unparked>>

\* Match that does not break on Terminate: the message is dropped and the
\* loop goes round.
MatchIgnoresTerminate(w) ==
    /\ pc[w] = "match"
    /\ IF msg[w].kind = "Terminate"
         THEN /\ pc' = [pc EXCEPT ![w] = "idle"]
              /\ msg' = [msg EXCEPT ![w] = NoMsg]
              /\ UNCHANGED startLog
         ELSE /\ pc' = [pc EXCEPT ![w] = "run"]
              /\ startLog' = Append(startLog, msg[w].id)
              /\ UNCHANGED msg
    /\ UNCHANGED <<callerVars, queue, sent, lock, handLog, doneLog, unparked>>

\* match msg: Terminate breaks the loop, Task(job) invokes job().
Match(w) ==
    /\ pc[w] = "match"
    /\ IF msg[w].kind = "Terminate"
         THEN /\ pc' = [pc EXCEPT ![w] = "exited"]
              /\ msg' = [msg EXCEPT ![w] = NoMsg]
              /\ UNCHANGED startLog
         ELSE /\ pc' = [pc EXCEPT ![w] = "run"]
              /\ startLog' = Append(startLog, msg[w].id)
              /\ UNCHANGED msg
    /\ UNCHANGED <<callerVars, queue, sent, lock, handLog, doneLog, unparked>>

\* Finish where a panic is not confined to its thread: it takes every
\* worker thread down with it.
FinishAbort(w) ==
    /\ pc[w] = "run"
    /\ IF msg[w].panics
         THEN /\ pc' = [v \in Workers |-> IF pc[v] = "exited" THEN "exited" ELSE "panicked"]
              /\ UNCHANGED doneLog
         ELSE /\ pc' = [pc EXCEPT ![w] = "idle"]
              /\ doneLog' = Append(doneLog, msg[w].id)
    /\ msg' = [msg EXCEPT ![w] = NoMsg]
    /\ UNCHANGED <<callerVars, queue, sent, lock, handLog, startLog, unparked>>

\* job() ends: it returns and the loop goes round, or it panics and the
\* thread unwinds out of the loop (nothing catches the panic).
Finish(w) ==
    /\ pc[w] = "run"
    /\ IF msg[w].panics
         THEN /\ pc' = [pc EXCEPT ![w] = "panicked"]
              /\ UNCHANGED doneLog
         ELSE /\ pc' = [pc EXCEPT ![w] = "idle"]
              /\ doneLog' = Append(doneLog, msg[w].id)
    /\ msg' = [msg EXCEPT ![w] = NoMsg]
    /\ UNCHANGED <<callerVars, queue, sent, lock, handLog, startLog, unparked>>

----------------------------------------------------------------------------
Caller ==
    \/ \E n \in 0..MaxSize : New(n)
    \/ \E p \in BOOLEAN : Execute(p)
    \/ DropPool
    \/ Join
    \/ JoinSend
    \/ JoinWait

Next ==
    \/ Caller
    \/ \E w \in Workers : Lock(w)
    \/ \E w \in Workers : Recv(w)
    \/ \E w \in Workers : RecvErr(w)
    \/ \E w \in Workers : Unlock(w)
    \/ \E w \in Workers : Match(w)
    \/ \E w \in Workers : Finish(w)

Spec == Init /\ [][Next]_vars

\* One worker thread's step.  The threads are OS threads, each scheduled
\* again and again, and parking_lot's mutex hands the lock to a waiter.
WorkerStep(w) ==
    /\ w \in Workers
    /\ Lock(w) \/ Recv(w) \/ RecvErr(w) \/ Unlock(w) \/ Match(w) \/ Finish(w)

\* Spec with the scheduling the threads get: every worker keeps taking steps
\* it can take, a job that does not panic returns, and the caller, once
\* inside join, keeps executing it.  The caller is never forced to call
\* execute, join or drop.
FairSpec ==
    /\ Spec
    /\ \A w \in 1..MaxSize : WF_vars(WorkerStep(w))
    /\ WF_vars(JoinSend)
    /\ WF_vars(JoinWait)

\* The steps by which a worker thread fetches and starts its next message:
\* everything in the loop but the return of a job's body.
WorkerFetch(w) ==
    /\ w \in Workers
    /\ Lock(w) \/ Recv(w) \/ RecvErr(w) \/ Unlock(w) \/ Match(w)

\* Spec with the worker threads scheduled fairly but with no promise that a
\* job's body ever returns, and none about the caller.
FairFetchSpec ==
    /\ Spec
    /\ \A w \in 1..MaxSize : WF_vars(WorkerFetch(w))

----------------------------------------------------------------------------
\* FixedThreadPool::terminate(&self):
\*     for worker in self.workers.iter() { worker.thread.thread().unpark(); }
\* unpark() makes the thread's park token available and never blocks; it
\* needs a live pool handle, so it cannot be called once join has the pool.
terminate ==
    /\ cpc = "running"
    /\ unparked' = Workers
    /\ UNCHANGED <<callerVars, queue, sent, lock, pc, msg, histVars>>

\* SpuriousWake where waking the thread makes recv() give up with an error,
\* on which unwrap() panics.
SpuriousWakeInterrupts(w) ==
    /\ w \in unparked
    /\ pc[w] = "recv"
    /\ queue = <<>>
    /\ unparked' = unparked \ {w}
    /\ pc' = [pc EXCEPT ![w] = "panicked"]
    /\ lock' = IF lock = w THEN Unlocked ELSE lock
    /\ UNCHANGED <<callerVars, queue, sent, msg, histVars>>

\* A worker blocked in recv() on the empty channel is parked with
\* thread::park(); a pending token makes park() return, recv() finds no
\* message and parks again.  The mutex parks through parking_lot's own
\* parker, which the token does not reach.
SpuriousWake(w) ==
    /\ w \in unparked
    /\ pc[w] = "recv"
    /\ queue = <<>>
    /\ unparked' = unparked \ {w}
    /\ UNCHANGED <<callerVars, queue, sent, lock, pc, msg, histVars>>

NextWake ==
    \/ Next
    \/ terminate
    \/ \E w \in Workers : SpuriousWake(w)

\* Spec with calls of terminate() interleaved.
SpecWake == Init /\ [][NextWake]_vars

----------------------------------------------------------------------------
\* Worker loop of ThreadPool (src/execs/executor.rs):
\*     loop { let msg = receiver.recv().unwrap(); match msg { .. } }
\* `receiver` is a Redex<Receiver<Msg>>: an Arc that `unsafe impl Sync`
\* lets every worker dereference at once.  Receiver is not Sync, so two
\* workers inside recv() at once are a data race on the channel's consumer
\* state; its outcomes are modelled by RedexRecv (the race goes unnoticed),
\* RedexRaceDup and RedexRacePanic.

\* The worker calls receiver.recv(): no lock is taken.
RedexEnter(w) ==
    /\ pc[w] = "idle"
    /\ pc' = [pc EXCEPT ![w] = "recv"]
    /\ UNCHANGED <<callerVars, queue, sent, lock, msg, histVars, unparked>>

\* recv() returns Ok(m) to this worker.
RedexRecv(w) ==
    /\ pc[w] = "recv"
    /\ queue # <<>>
    /\ msg' = [msg EXCEPT ![w] = Head(queue)]
    /\ queue' = Tail(queue)
    /\ handLog' = Append(handLog, Head(queue).id)
    /\ pc' = [pc EXCEPT ![w] = "match"]
    /\ UNCHANGED <<callerVars, sent, lock, startLog, doneLog, unparked>>

\* Two workers pop concurrently: both read the same head node before either
\* advances it, and both return its value.
RedexRaceDup(w, v) ==
    /\ w # v
    /\ pc[w] = "recv"
    /\ pc[v] = "recv"
    /\ queue # <<>>
    /\ msg' = [msg EXCEPT ![w] = Head(queue), ![v] = Head(queue)]
    /\ queue' = Tail(queue)
    /\ handLog' = handLog \o <<Head(queue).id, Head(queue).id>>
    /\ pc' = [pc EXCEPT ![w] = "match", ![v] = "match"]
    /\ UNCHANGED <<callerVars, sent, lock, startLog, doneLog, unparked>>

\* Two workers pop concurrently: one takes the value, the other finds the
\* node already emptied and panics on the channel's internal check.
RedexRacePanic(w, v) ==
    /\ w # v
    /\ pc[w] = "recv"
    /\ pc[v] = "recv"
    /\ queue # <<>>
    /\ msg' = [msg EXCEPT ![w] = Head(queue)]
    /\ queue' = Tail(queue)
    /\ handLog' = Append(handLog, Head(queue).id)
    /\ pc' = [pc EXCEPT ![w] = "match", ![v] = "panicked"]
    /\ UNCHANGED <<callerVars, sent, lock, startLog, doneLog, unparked>>

NextRedex ==
    \/ Caller
    \/ \E w \in Workers : RedexEnter(w)
    \/ \E w \in Workers : RedexRecv(w)
    \/ \E w \in Workers : RecvErr(w)
    \/ \E w, v \in Workers : RedexRaceDup(w, v)
    \/ \E w, v \in Workers : RedexRacePanic(w, v)
    \/ \E w \in Workers : Match(w)
    \/ \E w \in Workers : Finish(w)

SpecRedex == Init /\ [][NextRedex]_vars

----------------------------------------------------------------------------
\* Vocabulary of the properties.

\* No job submitted so far panics.
NoPanicSubmitted == \A k \in TaskIds : ~sent[k].panics

Handed(id) == \E i \in 1..Len(handLog) : handLog[i] = id
Started(id) == \E i \in 1..Len(startLog) : startLog[i] = id

\* Position of the first occurrence of x in s (x occurs in s).
Pos(s, x) == CHOOSE i \in 1..Len(s) : s[i] = x /\ \A j \in 1..(i - 1) : s[j] # x

AllExited == \A w \in Workers : pc[w] = "exited"

----------------------------------------------------------------------------
\* C1: when join returns after K tasks that all terminate normally were
\* submitted, every one of them has been started exactly once and has run to
\* completion exactly once; none is still queued or held by a worker.
JoinCompletesAllTasks ==
    (cpc = "joined" /\ NoPanicSubmitted) =>
        /\ \A k \in TaskIds : Count(startLog, k) = 1 /\ Count(doneLog, k) = 1
        /\ \A i \in 1..Len(queue) : queue[i].kind # "Task"
        /\ \A w \in Workers : msg[w] = NoMsg

\* join has returned from a pool of several workers that ran several tasks.
JoinedAfterTasks ==
    /\ cpc = "joined"
    /\ size >= 2
    /\ Cardinality(TaskIds) >= 2
    /\ NoPanicSubmitted

JoinEventuallyReturns ==
    (cpc = "join_send" /\ NoPanicSubmitted) ~> (cpc = "joined" /\ AllExited)

\* During join a worker sits in recv() on the empty queue holding the lock
\* while another worker waits for that lock.
DrainingWithBlockedLockHolder ==
    /\ cpc = "join_send"
    /\ NoPanicSubmitted
    /\ TaskIds # {}
    /\ queue = <<>>
    /\ \E w, v \in Workers : lock = w /\ pc[w] = "recv" /\ pc[v] = "idle"

\* C4: join returns only when every worker thread has left its loop; no
\* worker is running a task, waiting for the lock or inside recv.
JoinedImpliesAllExited ==
    cpc = "joined" => (AllExited /\ lock = Unlocked)

\* join has returned from a pool of MaxSize workers.
JoinedFullPool ==
    cpc = "joined" /\ size = MaxSize /\ AllExited

\* C5: with one submitting thread the tasks are dequeued in submission
\* order: if B has been dequeued and A was submitted before B, then A was
\* dequeued before B.
FifoDequeueOrder ==
    \A a, b \in TaskIds :
        (a < b /\ Handed(b)) =>
            (Handed(a) /\ Pos(handLog, a) < Pos(handLog, b))

\* Several workers have dequeued three tasks between them.
ThreeTasksDequeued ==
    /\ size >= 2
    /\ \A k \in 1..3 : k \in TaskIds /\ Handed(k)

\* C6 (as claimed): a task does not begin executing before every task
\* submitted earlier has begun executing.
StartOrderFollowsSubmission ==
    \A a, b \in TaskIds :
        (a < b /\ Started(b)) =>
            (Started(a) /\ Pos(startLog, a) < Pos(startLog, b))

\* C7: in a pool of size 1 the tasks run one after the other in submission
\* order: the i-th task started is the i-th submitted, a task starts only
\* when every earlier one has returned, and after join the sequence of
\* completed tasks is the submission sequence.
SingleWorkerSequential ==
    size = 1 =>
        /\ \A i \in 1..Len(startLog) : startLog[i] = i
        /\ Len(startLog) <= Len(doneLog) + 1
        /\ doneLog = SubSeq(startLog, 1, Len(doneLog))
        /\ cpc = "joined" => doneLog = [i \in 1..Cardinality(TaskIds) |-> i]

\* join has returned from a pool of one worker that ran several tasks.
SingleWorkerJoined ==
    size = 1 /\ cpc = "joined" /\ Len(doneLog) >= 2

\* C8 (as claimed): the send of execute never fails, whatever earlier tasks
\* did.
ExecuteNeverPanics == cpc # "execute_panicked"

\* C9 (as claimed): whatever tasks panic, once the pool has wound down every
\* task appended before join began has been started exactly once.
EveryTaskStartedOnce ==
    (cpc \in {"joined", "join_panicked"} /\ \A w \in Workers : Ended(w)) =>
        \A k \in TaskIds : Count(startLog, k) = 1

\* C10 (as claimed): join does not panic in the calling thread when a worker
\* has ended by a task's panic.
JoinNeverPanics == cpc # "join_panicked"

\* Number of submitted jobs that panic.
PanicCount == Cardinality({k \in TaskIds : sent[k].panics})

ConstructionContract ==
    /\ [](cpc = "new_panicked" => (size = 0 /\ pc = <<>> /\ ~sender))
    /\ [](cpc \notin {"new", "new_panicked"} =>
             (size >= 1 /\ DOMAIN pc = 1..size /\ DOMAIN msg = 1..size))
    /\ [][cpc = "new" =>
             \/ cpc' = "new_panicked"
             \/ /\ cpc' = "running"
                /\ sender'
                /\ \A w \in 1..size' : pc'[w] = "idle"]_vars
    /\ [][cpc # "new" => (size' = size /\ DOMAIN pc' = DOMAIN pc)]_vars

\* new(MaxSize) has just returned: MaxSize idle workers, nothing sent yet.
FreshFullPool ==
    /\ cpc = "running"
    /\ size = MaxSize
    /\ sent = <<>>
    /\ \A w \in Workers : pc[w] = "idle"

\* Workers that are in the act of retrieving a message from the receiver:
\* inside recv(), or back from it with the statement not yet ended.
Retrieving == {w \in Workers : pc[w] \in {"recv", "unlock"}}

\* C13 (as claimed, for every pool variant): at most one worker at a time is
\* retrieving a message from the shared receiver, and the one that is holds
\* the lock that guards the retrieve step.
RetrieveIsMutuallyExclusive ==
    /\ Cardinality(Retrieving) <= 1
    /\ \A w \in Retrieving : lock = w

\* C14: the receiver lock is held only across the retrieve step: a worker
\* that is matching on its message, running a task body, exited or dead
\* does not hold it, so a running task never keeps the other workers from
\* the queue.
LockHeldOnlyWhileRetrieving ==
    \A w \in Workers : lock = w => pc[w] \in {"recv", "unlock"}

\* One worker is inside a task body while another holds the lock in recv().
RunningBesideLockHolder ==
    \E w, v \in Workers : pc[w] = "run" /\ pc[v] = "recv" /\ lock = v

\* C15: the first `size` tasks submitted to a pool each eventually begin
\* executing, under fair scheduling of the workers, even if no task body
\* ever returns: no task among them waits for another to complete.  (A task
\* once submitted stays submitted and once started stays started, so "each
\* such task is eventually started" is "from some point on, all are".)
FirstTasksStartWithoutWaiting ==
    <>[](\A k \in TaskIds : k <= size => Started(k))

\* Every worker of a pool of MaxSize workers is inside a task body, and no
\* task has completed.
AllWorkersRunning ==
    /\ size = MaxSize
    /\ \A w \in Workers : pc[w] = "run"
    /\ doneLog = <<>>
    /\ \A w, v \in Workers : w # v => msg[w].id # msg[v].id

\* Terminate messages that recv() has returned to some worker.
HandedTerminates == {i \in TerminateIds : Handed(i)}

\* C16 (as claimed): Terminate messages are appended by join only; join
\* appends exactly one per worker handle, so once it is past its send loop
\* exactly `size` have been appended in the pool's lifetime; and a worker
\* consumes at most one, leaving its loop on it.
SentinelAccounting ==
    /\ cpc \in {"new", "new_panicked", "running", "dropped", "execute_panicked"}
         => TerminateIds = {}
    /\ cpc = "join_send" => Cardinality(TerminateIds) = joinIdx
    /\ cpc \in {"join_wait", "joined", "join_panicked"}
         => Cardinality(TerminateIds) = size
    /\ Cardinality(HandedTerminates)
         = Cardinality({w \in Workers : msg[w].kind = "Terminate"})
             + Cardinality({w \in Workers : pc[w] = "exited"})

\* Tasks whose body has panicked: panicking jobs that were started and are
\* no longer running.
PanickedTasks ==
    {k \in TaskIds : /\ sent[k].panics
                     /\ Started(k)
                     /\ ~\E w \in Workers : pc[w] = "run" /\ msg[w].id = k}

\* C17 (as claimed): a panicking task ends the worker that ran it and
\* nothing else: a dead worker holds neither the lock nor a message, no
\* worker is added, and the number of live workers is `size` minus the
\* workers that exited on a Terminate minus the tasks that have panicked.
PanicEndsExactlyOneWorker ==
    /\ DOMAIN pc = 1..size
    /\ \A w \in Workers : pc[w] = "panicked" => (lock # w /\ msg[w] = NoMsg)
    /\ Cardinality({w \in Workers : ~Ended(w)})
         + Cardinality({w \in Workers : pc[w] = "exited"})
         + Cardinality(PanickedTasks) = size

\* C18 (as claimed): the channel never hangs up on a worker: a worker inside
\* recv() never finds the channel empty with the Sender gone, so every dead
\* worker died of a task's panic, never of recv().unwrap().
ChannelNeverHangsUp ==
    /\ \A w \in Workers : pc[w] = "recv" => (sender \/ queue # <<>>)
    /\ Cardinality({w \in Workers : pc[w] = "panicked"})
         = Cardinality(PanickedTasks)

\* C19: terminate() has no effect on the pool's protocol state: a step that
\* sets or consumes an unpark token (a call of terminate, a worker woken by
\* it) leaves the queue, the messages held, every worker's position, the
\* lock and the caller's position unchanged; and with such steps interleaved
\* join still returns only with all workers exited and all tasks done,
\* dequeues stay in FIFO order and the lock is held only while retrieving.
TerminateLeavesProtocolUnchanged ==
    /\ [][unparked' # unparked =>
            UNCHANGED <<cpc, size, sender, queue, sent, lock, pc, msg,
                        joinIdx, handLog, startLog, doneLog>>]_vars
    /\ [](/\ JoinedImpliesAllExited
          /\ JoinCompletesAllTasks
          /\ FifoDequeueOrder
          /\ LockHeldOnlyWhileRetrieving)

\* A worker blocked in recv() has been woken by terminate() and is still
\* blocked there, tasks having been run before.
WokenWorkerStillBlocked ==
    /\ cpc = "running"
    /\ doneLog # <<>>
    /\ \E w, v \in Workers :
          /\ pc[w] = "recv" /\ lock = w /\ queue = <<>>
          /\ w \notin unparked
          /\ v \in unparked

\* C20: the queue always has the shape Task* Terminate*: no Task sits behind
\* a Terminate; hence whenever a worker has been handed a Terminate, no task
\* is left waiting in the queue.
QueueTasksBeforeTerminates ==
    /\ \A i, j \in 1..Len(queue) :
          (i < j /\ queue[i].kind = "Terminate") => queue[j].kind = "Terminate"
    /\ HandedTerminates # {} => \A i \in 1..Len(queue) : queue[i].kind # "Task"

\* The queue holds tasks followed by Terminates.
QueueHoldsTasksThenTerminates ==
    /\ Len(queue) >= 3
    /\ queue[1].kind = "Task"
    /\ queue[Len(queue)].kind = "Terminate"

\* Terminate messages still buffered in the channel.
QueuedTerminates == {i \in 1..Len(queue) : queue[i].kind = "Terminate"}

\* Workers that have dequeued a Terminate: it is bound to their `msg`, or
\* they have left the loop on it.
WorkersGivenTerminate ==
    {w \in Workers : msg[w].kind = "Terminate" \/ pc[w] = "exited"}

\* C21: when no task panics, in every state after join has appended its
\* sentinels the Terminates still queued plus the workers that have
\* dequeued one number `size`, and when join has returned the queue is
\* empty: no Task and no Terminate is left unconsumed.
ShutdownConservesMessages ==
    (NoPanicSubmitted /\ cpc \in {"join_wait", "joined"}) =>
        /\ Cardinality(QueuedTerminates) + Cardinality(WorkersGivenTerminate)
             = size
        /\ cpc = "joined" => queue = <<>>

\* join waits, after tasks were run: one worker has left on its Terminate
\* and another Terminate is still queued.
DrainingHalfway ==
    /\ cpc = "join_wait"
    /\ NoPanicSubmitted
    /\ doneLog # <<>>
    /\ QueuedTerminates # {}
    /\ \E w \in Workers : pc[w] = "exited"

====
